---- MODULE Spec2Model ----
(***************************************************************************)
(* The password-tester client (frontend/src/App.js) as a state machine,    *)
(* together with the analysis/history service it talks to.  The client is  *)
(* translated from App.js.  The service (AnalysisOrchestrator, Masker,     *)
(* DualStore and the two user-facing endpoints) is not part of the files   *)
(* at hand and is modelled from the design document, sections 4 and 6.     *)
(***************************************************************************)
EXTENDS Integers, Sequences, FiniteSets

\* ------------------------------------------------------------------ bounds
\* number of analyze requests the client may issue in one behaviour
MaxAnalyses == 2
\* number of analyses other sessions have completed before the client mounts
PriorOtherWrites == 1

\* number of requests that may be in flight when the client sends another
\* analyze request
MaxPending == 2

\* ------------------------------------------------------------------ inputs
\* characters String.prototype.trim removes (the ones used in Passwords)
Whitespace == {" ", "\t"}

\* values the password input can hold: a password is a sequence of characters
Passwords == { <<>>, <<" ">>, <<" ", "b", "c">> }

\* values generateSessionId can return
SessionIds == {"session_1"}

\* the partition key used by every other client of the service
OtherSession == "session_other"
OtherPassword == <<"x", "y", "z", "!">>

\* the two endpoints the client addresses (App.js lines 31 and 47) and the
\* admin endpoints of the service
AnalyzeEndpoint == "POST /api/analyze-password"
HistoryEndpoint == "GET /api/analysis-history/"
AdminEndpoints == {"GET /api/admin/password-logs", "GET /api/admin/password-stats"}

\* the value null of the analysis state; an analysis is a record
Null == [record_id |-> 0, password_masked |-> <<>>]

\* the body of a history request that has not been answered
NoBody == [pending |-> TRUE]

\* ----------------------------------------------------------------- helpers
Range(s) == { s[i] : i \in DOMAIN s }

RECURSIVE TrimStart(_)
TrimStart(s) ==
    IF s = <<>> THEN <<>>
    ELSE IF Head(s) \in Whitespace THEN TrimStart(Tail(s)) ELSE s

RECURSIVE TrimEnd(_)
TrimEnd(s) ==
    IF s = <<>> THEN <<>>
    ELSE IF s[Len(s)] \in Whitespace THEN TrimEnd(SubSeq(s, 1, Len(s) - 1)) ELSE s

\* String.prototype.trim
Trim(s) == TrimEnd(TrimStart(s))

\* the guard without the trim: !password
Rejected_noTrim(pw) == pw = <<>>

\* the guard of analyzePassword: !password.trim() (the empty string is falsy)
Rejected(pw) == Trim(pw) = <<>>

\* Masker.mask: first character revealed, interior masked, last character
\* revealed when the length exceeds 1, a single mask character for length 1
MaskChar == "*"

mask(raw) ==
    IF raw = <<>> THEN <<>>
    ELSE IF Len(raw) = 1 THEN <<MaskChar>>
    ELSE [i \in 1..Len(raw) |-> IF i = 1 \/ i = Len(raw) THEN raw[i] ELSE MaskChar]

\* ------------------------------------------------------------------- state
VARIABLES
    pc,            \* "unmounted", "sessionSet" (first effect ran), "ready"
    password,      \* useState('')
    analysis,      \* useState(null): Null or the body of an analyze response
    history,       \* useState([])
    loading,       \* useState(false)
    sessionId,     \* useState('')
    showPassword,  \* useState(false)
    areqs,         \* the analyze requests issued by the client, in order
    hreqs,         \* the history requests issued by the client, in order
    historyStore,  \* DualStore: HistoryRecords, oldest first
    auditStore,    \* DualStore: AuditRecords, oldest first
    clearedSince,  \* clearHistory was invoked since the last successful analysis
    lastClear,     \* record ids of this session in the store at the last clearHistory
    guardAlert,    \* analyzePassword alerted at its guard since the input last changed
    lastQuiet      \* nothing was in flight when the latest analyze request was sent

vars == <<pc, password, analysis, history, loading, sessionId, showPassword,
          areqs, hreqs, historyStore, auditStore, clearedSince, lastClear,
          guardAlert, lastQuiet>>

client == <<pc, password, analysis, history, loading, sessionId, showPassword>>
store  == <<historyStore, auditStore>>
ghost  == <<clearedSince, lastClear, guardAlert, lastQuiet>>

\* a request is in flight until the client has handled its outcome
AnalyzeInFlight(i) == areqs[i].st \notin {"doneOK", "doneErr"}
HistoryInFlight(j) == hreqs[j].st \notin {"doneOK", "doneEmpty", "doneErr"}

Pending ==
    Cardinality({ i \in DOMAIN areqs : AnalyzeInFlight(i) })
      + Cardinality({ j \in DOMAIN hreqs : HistoryInFlight(j) })

Quiet ==
    /\ \A i \in DOMAIN areqs : ~AnalyzeInFlight(i)
    /\ \A j \in DOMAIN hreqs : ~HistoryInFlight(j)

\* ----------------------------------------------------------------- service
\* DualStore.readHistory: the HistoryRecords of one session, newest first
RECURSIVE readHistory(_, _)
readHistory(recs, sid) ==
    IF recs = <<>> THEN <<>>
    ELSE LET rest == readHistory(SubSeq(recs, 1, Len(recs) - 1), sid)
             last == recs[Len(recs)]
         IN IF last.session_id = sid THEN <<last>> \o rest ELSE rest

SessionIdsOf(recs, sid) == { r.record_id : r \in { x \in Range(recs) : x.session_id = sid } }

\* record_id generator: ids are never reused
NextRecordId == Len(auditStore) + 1

HistoryRecord(rid, sid, raw) ==
    [record_id |-> rid, session_id |-> sid, password_masked |-> mask(raw)]

AuditRecord(rid, sid, raw) ==
    [record_id |-> rid, session_id |-> sid, password_raw |-> raw]

Init ==
    /\ pc = "unmounted"
    /\ password = <<>>
    /\ analysis = Null
    /\ history = <<>>
    /\ loading = FALSE
    /\ sessionId = ""
    /\ showPassword = FALSE
    /\ areqs = <<>>
    /\ hreqs = <<>>
    /\ historyStore = [n \in 1..PriorOtherWrites |-> HistoryRecord(n, OtherSession, OtherPassword)]
    /\ auditStore = [n \in 1..PriorOtherWrites |-> AuditRecord(n, OtherSession, OtherPassword)]
    /\ clearedSince = FALSE
    /\ lastClear = {}
    /\ guardAlert = FALSE
    /\ lastQuiet = FALSE

\* ------------------------------------------------------------------ client
\* the request loadHistory sends: fetch(`${backendUrl}/api/analysis-history/${sessionId}`)
\* loadHistory fetching the admin log with credentials instead
HistoryRequest_admin(sid, trig, clr) ==
    [endpoint |-> "GET /api/admin/password-logs", session_id |-> sid, auth |-> "basic",
     trigger |-> trig, cleared |-> clr, st |-> "sent", body |-> NoBody]

\* trigger: the analyze request whose refresh this is (0: the mount effect);
\* cleared: carried over from that analyze request
HistoryRequest(sid, trig, clr) ==
    [endpoint |-> HistoryEndpoint, session_id |-> sid, auth |-> "none",
     trigger |-> trig, cleared |-> clr, st |-> "sent", body |-> NoBody]

\* the first effect: setSessionId(generateSessionId())
Mount ==
    /\ pc = "unmounted"
    /\ \E sid \in SessionIds : sessionId' = sid
    /\ pc' = "sessionSet"
    /\ UNCHANGED <<password, analysis, history, loading, showPassword,
                   areqs, hreqs, store, ghost>>

\* the second effect: if (sessionId) loadHistory()
SessionEffect ==
    /\ pc = "sessionSet"
    /\ pc' = "ready"
    /\ hreqs' = IF sessionId # "" THEN Append(hreqs, HistoryRequest(sessionId, 0, {}))
                ELSE hreqs
    /\ UNCHANGED <<password, analysis, history, loading, sessionId, showPassword,
                   areqs, store, ghost>>

\* onChange={(e) => setPassword(e.target.value)}
SetPassword ==
    /\ pc = "ready"
    /\ \E pw \in Passwords : pw # password /\ password' = pw
    /\ guardAlert' = FALSE
    /\ UNCHANGED <<pc, analysis, history, loading, sessionId, showPassword,
                   areqs, hreqs, store, clearedSince, lastClear, lastQuiet>>

\* onClick={() => setShowPassword(!showPassword)}
ToggleShowPassword ==
    /\ pc = "ready"
    /\ showPassword' = ~showPassword
    /\ UNCHANGED <<pc, password, analysis, history, loading, sessionId,
                   areqs, hreqs, store, ghost>>

\* analyzePassword sending a newly generated session id instead of the state's
AnalyzeRequest_freshSession(pw, sid) ==
    [endpoint |-> AnalyzeEndpoint, password |-> pw, session_id |-> "session_2",
     auth |-> "none", cleared |-> lastClear,
     st |-> "sent", http |-> 0, record_id |-> 0]

\* the request analyzePassword sends.  cleared: the records of the session
\* that existed at the latest clearHistory before the request
AnalyzeRequest(pw, sid) ==
    [endpoint |-> AnalyzeEndpoint, password |-> pw, session_id |-> sid,
     auth |-> "none", cleared |-> lastClear,
     st |-> "sent", http |-> 0, record_id |-> 0]

\* what is kept of a request once the client has handled its outcome
Settled(r, outcome) ==
    [r EXCEPT !.st = outcome, !.http = 0, !.cleared = {}]

\* analyzePassword with setLoading(true) moved in front of the guard
analyzePassword_loadingFirst(viaButton) ==
    /\ pc = "ready"
    /\ viaButton => ~loading
    /\ loading' = TRUE
    /\ IF Rejected(password)
       THEN /\ guardAlert' = TRUE
            /\ UNCHANGED <<areqs, lastQuiet>>
       ELSE /\ Len(areqs) < MaxAnalyses
            /\ Pending < MaxPending
            /\ areqs' = Append(areqs, AnalyzeRequest(password, sessionId))
            /\ lastQuiet' = Quiet
            /\ UNCHANGED guardAlert
    /\ UNCHANGED <<pc, password, analysis, history, sessionId, showPassword,
                   hreqs, store, clearedSince, lastClear>>

\* analyzePassword calling loadHistory() before the await of fetch
analyzePassword_refreshFirst(viaButton) ==
    /\ pc = "ready"
    /\ viaButton => ~loading
    /\ IF Rejected(password)
       THEN /\ guardAlert' = TRUE
            /\ UNCHANGED <<loading, areqs, hreqs, lastQuiet>>
       ELSE /\ Len(areqs) < MaxAnalyses
            /\ Pending < MaxPending
            /\ loading' = TRUE
            /\ areqs' = Append(areqs, AnalyzeRequest(password, sessionId))
            /\ hreqs' = Append(hreqs, HistoryRequest(sessionId, Len(areqs) + 1, lastClear))
            /\ lastQuiet' = Quiet
            /\ UNCHANGED guardAlert
    /\ UNCHANGED <<pc, password, analysis, history, sessionId, showPassword,
                   store, clearedSince, lastClear>>

\* analyzePassword up to the first await.  viaButton: the Analyze button,
\* which is disabled while loading; otherwise the Enter key of the input.
analyzePassword(viaButton) ==
    /\ pc = "ready"
    /\ viaButton => ~loading
    /\ IF Rejected(password)
       THEN /\ guardAlert' = TRUE
            /\ UNCHANGED <<loading, areqs, lastQuiet>>
       ELSE /\ Len(areqs) < MaxAnalyses
            /\ Pending < MaxPending
            /\ loading' = TRUE
            /\ areqs' = Append(areqs, AnalyzeRequest(password, sessionId))
            /\ lastQuiet' = Quiet
            /\ UNCHANGED guardAlert
    /\ UNCHANGED <<pc, password, analysis, history, sessionId, showPassword,
                   hreqs, store, clearedSince, lastClear>>

AnalyzeClick == analyzePassword(TRUE)
AnalyzeEnter == analyzePassword(FALSE)

\* clearHistory also deleting the session's records from the backing store
clearHistory_purging ==
    /\ pc = "ready"
    /\ Len(history) > 0
    /\ history' = <<>>
    /\ analysis' = Null
    /\ clearedSince' = TRUE
    /\ lastClear' = SessionIdsOf(historyStore, sessionId)
    /\ historyStore' = SelectSeq(historyStore, LAMBDA r : r.session_id # sessionId)
    /\ UNCHANGED <<pc, password, loading, sessionId, showPassword,
                   areqs, hreqs, auditStore, guardAlert, lastQuiet>>

\* clearHistory, reachable through the button rendered when history.length > 0
clearHistory ==
    /\ pc = "ready"
    /\ Len(history) > 0
    /\ history' = <<>>
    /\ analysis' = Null
    /\ clearedSince' = TRUE
    /\ lastClear' = SessionIdsOf(historyStore, sessionId)
    /\ UNCHANGED <<pc, password, loading, sessionId, showPassword,
                   areqs, hreqs, store, guardAlert, lastQuiet>>

\* the record ids of a list of HistoryRecords
Ids(recs) == { recs[k].record_id : k \in DOMAIN recs }

\* the history card: one row per entry, showing item.password_masked
HistoryView == [k \in DOMAIN history |-> history[k].password_masked]

\* keeping only the newest entry of the list received
OrEmpty_newestOnly(data) ==
    IF "analyses" \in DOMAIN data /\ data.analyses # <<>> THEN <<data.analyses[1]>> ELSE <<>>

\* data.analyses || [] (an array, even an empty one, is truthy)
OrEmpty(data) == IF "analyses" \in DOMAIN data THEN data.analyses ELSE <<>>

\* the body of a 200 analyze response: the AnalysisResult of the completed
\* analysis, identified here by the record it was stored under
AnalysisResult(r) == [record_id |-> r.record_id, password_masked |-> mask(r.password)]

\* the try block without setAnalysis(data)
AnalyzeResponse_noSetAnalysis(i) ==
    /\ areqs[i].st \in {"ok", "err"}
    /\ IF areqs[i].st = "ok"
       THEN /\ hreqs' = Append(hreqs, HistoryRequest(areqs[i].session_id, i, areqs[i].cleared))
            /\ areqs' = [areqs EXCEPT ![i] = Settled(@, "doneOK")]
            /\ clearedSince' = FALSE
       ELSE /\ areqs' = [areqs EXCEPT ![i] = Settled(@, "doneErr")]
            /\ UNCHANGED <<hreqs, clearedSince>>
    /\ loading' = FALSE
    /\ UNCHANGED <<pc, password, analysis, history, sessionId, showPassword, store,
                   lastClear, guardAlert, lastQuiet>>

\* analyzePassword after the await of fetch when the fetch promise resolves:
\* the try block from `if (!response.ok)`, the catch block for the thrown
\* 'Analysis failed', and the finally block
AnalyzeResponse(i) ==
    /\ areqs[i].st \in {"ok", "err"}
    /\ IF areqs[i].st = "ok"
       THEN /\ analysis' = AnalysisResult(areqs[i])
            /\ hreqs' = Append(hreqs, HistoryRequest(areqs[i].session_id, i, areqs[i].cleared))
            /\ areqs' = [areqs EXCEPT ![i] = Settled(@, "doneOK")]
            /\ clearedSince' = FALSE
       ELSE /\ areqs' = [areqs EXCEPT ![i] = Settled(@, "doneErr")]
            /\ UNCHANGED <<analysis, hreqs, clearedSince>>
    /\ loading' = FALSE
    /\ UNCHANGED <<pc, password, history, sessionId, showPassword, store,
                   lastClear, guardAlert, lastQuiet>>

\* a catch block that also drops the analysis shown and reloads the history
AnalyzeNetworkError_resetting(i) ==
    /\ areqs[i].st \in {"sent", "ok", "err"}
    /\ areqs' = [areqs EXCEPT ![i] = Settled(@, "doneErr")]
    /\ loading' = FALSE
    /\ analysis' = Null
    /\ hreqs' = Append(hreqs, HistoryRequest(areqs[i].session_id, 0, areqs[i].cleared))
    /\ UNCHANGED <<pc, password, history, sessionId, showPassword, store, ghost>>

\* analyzePassword after the await of fetch when the fetch promise rejects
\* (the request or its response is lost): the catch and finally blocks
AnalyzeNetworkError(i) ==
    /\ areqs[i].st \in {"sent", "ok", "err"}
    /\ areqs' = [areqs EXCEPT ![i] = Settled(@, "doneErr")]
    /\ loading' = FALSE
    /\ UNCHANGED <<pc, password, analysis, history, sessionId, showPassword,
                   hreqs, store, ghost>>

\* what is kept of a history request once the client has handled its outcome
SettledHistory(r, outcome) == [r EXCEPT !.st = outcome, !.body = NoBody]

\* setHistory merging the list received into the list held
HistoryResponse_merging(j) ==
    /\ hreqs[j].st \in {"ok", "noAnalyses"}
    /\ history' = OrEmpty(hreqs[j].body) \o history
    /\ hreqs' = [hreqs EXCEPT ![j] = SettledHistory(@,
                    IF hreqs[j].st = "ok" THEN "doneOK" ELSE "doneEmpty")]
    /\ UNCHANGED <<pc, password, analysis, loading, sessionId, showPassword,
                   areqs, store, ghost>>

\* setHistory putting an entry for the password of the input in front
HistoryResponse_localEntry(j) ==
    /\ hreqs[j].st \in {"ok", "noAnalyses"}
    /\ history' = <<[record_id |-> 0, session_id |-> sessionId,
                     password_masked |-> password]>> \o OrEmpty(hreqs[j].body)
    /\ hreqs' = [hreqs EXCEPT ![j] = SettledHistory(@,
                    IF hreqs[j].st = "ok" THEN "doneOK" ELSE "doneEmpty")]
    /\ UNCHANGED <<pc, password, analysis, loading, sessionId, showPassword,
                   areqs, store, ghost>>

\* loadHistory after the await of fetch when the response arrives and parses:
\* setHistory(data.analyses || [])
HistoryResponse(j) ==
    /\ hreqs[j].st \in {"ok", "noAnalyses"}
    /\ history' = OrEmpty(hreqs[j].body)
    /\ hreqs' = [hreqs EXCEPT ![j] = SettledHistory(@,
                    IF hreqs[j].st = "ok" THEN "doneOK" ELSE "doneEmpty")]
    /\ UNCHANGED <<pc, password, analysis, loading, sessionId, showPassword,
                   areqs, store, ghost>>

\* loadHistory when fetch or response.json() rejects (network error or an
\* unparseable body): the catch block, which only logs
HistoryNetworkError(j) ==
    /\ hreqs[j].st \in {"sent", "ok", "noAnalyses"}
    /\ hreqs' = [hreqs EXCEPT ![j] = SettledHistory(@, "doneErr")]
    /\ UNCHANGED <<client, areqs, store, ghost>>

\* ----------------------------------------------------------------- service
\* POST /api/analyze-password: AnalysisOrchestrator.run and DualStore.write.
\* Whether the AIAnalyzer answers or the HeuristicScorer stands in for it does
\* not show in the response, so one outcome stands for both.  persist: both
\* records are written, or the AuditRecord write fails (nothing is written),
\* or the HistoryRecord write fails after the AuditRecord was written.
ServeAnalyze(i) ==
    /\ areqs[i].st = "sent"
    /\ IF areqs[i].password = <<>>
       THEN /\ areqs' = [areqs EXCEPT ![i].st = "err", ![i].http = 400]
            /\ UNCHANGED store
       ELSE \E persist \in {"ok", "auditFail", "historyFail"} :
              LET rid == NextRecordId
                  sid == areqs[i].session_id
                  raw == areqs[i].password
              IN /\ auditStore' = IF persist = "auditFail" THEN auditStore
                                  ELSE Append(auditStore, AuditRecord(rid, sid, raw))
                 /\ historyStore' = IF persist = "ok"
                                    THEN Append(historyStore, HistoryRecord(rid, sid, raw))
                                    ELSE historyStore
                 /\ areqs' = [areqs EXCEPT
                                ![i].st = IF persist = "ok" THEN "ok" ELSE "err",
                                ![i].http = IF persist = "ok" THEN 200 ELSE 500,
                                ![i].record_id = IF persist = "ok" THEN rid ELSE 0]
    /\ UNCHANGED <<client, hreqs, ghost>>

\* GET /api/analysis-history/{session_id}: {analyses: readHistory(session_id)},
\* or a non-OK JSON body without an analyses field (a PersistenceError)
ServeHistory(j) ==
    /\ hreqs[j].st = "sent"
    /\ \/ hreqs' = [hreqs EXCEPT ![j].st = "ok",
                                 ![j].body = [analyses |->
                                     readHistory(historyStore, hreqs[j].session_id)]]
       \/ hreqs' = [hreqs EXCEPT ![j].st = "noAnalyses",
                                 ![j].body = [detail |-> "Internal Server Error"]]
    /\ UNCHANGED <<client, areqs, store, ghost>>

\* the client driven by the Analyze button, the Enter key and Clear History
Next ==
    \/ Mount
    \/ SessionEffect
    \/ SetPassword
    \/ AnalyzeClick
    \/ AnalyzeEnter
    \/ clearHistory
    \/ \E i \in DOMAIN areqs : AnalyzeResponse(i)
    \/ \E j \in DOMAIN hreqs : HistoryResponse(j)
    \/ \E i \in DOMAIN areqs : ServeAnalyze(i)
    \/ \E i \in DOMAIN areqs : AnalyzeNetworkError(i)
    \/ \E j \in DOMAIN hreqs : ServeHistory(j)
    \/ \E j \in DOMAIN hreqs : HistoryNetworkError(j)

Spec == Init /\ [][Next]_vars

\* the client driven by its buttons alone: Analyze (disabled while loading),
\* Clear History and the show/hide toggle of the input
NextButtons ==
    \/ Mount
    \/ SessionEffect
    \/ SetPassword
    \/ ToggleShowPassword
    \/ AnalyzeClick
    \/ clearHistory
    \/ \E i \in DOMAIN areqs : AnalyzeResponse(i)
    \/ \E j \in DOMAIN hreqs : HistoryResponse(j)
    \/ \E i \in DOMAIN areqs : ServeAnalyze(i)
    \/ \E i \in DOMAIN areqs : AnalyzeNetworkError(i)
    \/ \E j \in DOMAIN hreqs : ServeHistory(j)
    \/ \E j \in DOMAIN hreqs : HistoryNetworkError(j)

SpecButtons == Init /\ [][NextButtons]_vars

\* ------------------------------------------------------------ properties
AllRequests == Range(areqs) \cup Range(hreqs)

\* C1: clearHistory sets history to the empty list and analysis to null,
\* leaves sessionId, password, loading and showPassword unchanged, issues no
\* request, and leaves every HistoryRecord and AuditRecord of the store as it is.
C1_ClearHistoryClientOnly ==
    [][clearHistory =>
         /\ history' = <<>>
         /\ analysis' = Null
         /\ UNCHANGED <<sessionId, password, loading, showPassword>>
         /\ UNCHANGED <<areqs, hreqs>>
         /\ UNCHANGED <<historyStore, auditStore>>]_vars

\* clearHistory has acted on a non-empty history whose records are still stored
C1_Witness ==
    /\ clearedSince
    /\ history = <<>>
    /\ analysis = Null
    /\ lastClear # {}
    /\ lastClear \subseteq SessionIdsOf(historyStore, sessionId)
    /\ \A rid \in lastClear : \E a \in Range(auditStore) : a.record_id = rid

\* C2: a clear never purges the backing store: when the history refresh of
\* an analysis sent after a clearHistory is applied, the client's history
\* holds every record of the session that existed at that clear, and the
\* record of the new analysis.
C2_ClearDoesNotPurge ==
    [][\A j \in DOMAIN hreqs :
         (/\ hreqs[j].st = "ok"
          /\ hreqs[j].trigger > 0
          /\ hreqs[j].cleared # {}
          /\ HistoryResponse(j))
         => (hreqs[j].cleared \cup {areqs[hreqs[j].trigger].record_id})
               \subseteq Ids(history')]_vars

\* the refresh of an analysis sent after a clear has been applied and was
\* the last thing to set the history
C2_Witness ==
    \E j \in DOMAIN hreqs :
        /\ hreqs[j].st = "doneOK"
        /\ hreqs[j].trigger > 0
        /\ hreqs[j].cleared # {}
        /\ ~clearedSince
        /\ Quiet
        /\ hreqs[j].cleared \subseteq Ids(history)
        /\ areqs[hreqs[j].trigger].record_id \in Ids(history) \ hreqs[j].cleared

\* C3 (as claimed): whenever nothing is in flight and clearHistory has not
\* been invoked since the last successful analysis, the client's history
\* holds the record of every analysis that completed successfully.  Taken
\* in the reading most favourable to the code: every history request was
\* answered with the session's list.
C3_HistoryHasEveryCompletedAnalysis ==
    (/\ Quiet
     /\ ~clearedSince
     /\ \A j \in DOMAIN hreqs : hreqs[j].st = "doneOK")
    => \A i \in DOMAIN areqs :
         areqs[i].st = "doneOK" => areqs[i].record_id \in Ids(history)

\* the latest analysis was sent while nothing was in flight, it and the one
\* before it succeeded, its refresh was answered, and everything has settled
TwoSequentialAnalyses ==
    /\ Len(areqs) >= 2
    /\ areqs[Len(areqs)].st = "doneOK"
    /\ areqs[Len(areqs) - 1].st = "doneOK"
    /\ lastQuiet
    /\ Quiet
    /\ ~clearedSince
    /\ \E j \in DOMAIN hreqs : hreqs[j].trigger = Len(areqs) /\ hreqs[j].st = "doneOK"

\* C4: after two sequential successful analyses the client's history is the
\* list the history endpoint returns for the session, unchanged: it holds
\* both records, the newer one at the head, and every entry is newer than
\* the entry after it.
C4_SequentialNewestFirst ==
    TwoSequentialAnalyses =>
        /\ history = readHistory(historyStore, sessionId)
        /\ history[1].record_id = areqs[Len(areqs)].record_id
        /\ \E k \in 2..Len(history) :
              history[k].record_id = areqs[Len(areqs) - 1].record_id
        /\ \A k \in 2..Len(history) :
              history[k - 1].record_id > history[k].record_id

C4_Witness == TwoSequentialAnalyses /\ Len(history) >= 2

\* an invocation of analyzePassword, by the button or by the Enter key
AnalyzeInvoked == AnalyzeClick \/ AnalyzeEnter

\* the invocation sent an analyze request carrying the password of the input
SendsRequestFor(pw) ==
    /\ Len(areqs') = Len(areqs) + 1
    /\ areqs'[Len(areqs')].endpoint = AnalyzeEndpoint
    /\ areqs'[Len(areqs')].password = pw
    /\ areqs'[Len(areqs')].st = "sent"

\* C5 (as claimed): analyzePassword invoked with any non-empty password,
\* one made only of whitespace included, sends an analyze request for it.
C5_NonEmptyIsSent ==
    [][(AnalyzeInvoked /\ password # <<>>) => SendsRequestFor(password)]_vars

\* C5 (amended): analyzePassword sends an analyze request for the password,
\* untrimmed, when the password is non-empty after trimming; a password made
\* only of whitespace sends nothing.
C5_NonBlankIsSent ==
    [][AnalyzeInvoked =>
         IF Trim(password) # <<>> THEN SendsRequestFor(password)
         ELSE UNCHANGED <<areqs, hreqs>>]_vars

\* a whitespace-only password has been turned away after a padded one was sent
C5_Witness ==
    /\ guardAlert
    /\ password = <<" ">>
    /\ \E i \in DOMAIN areqs : areqs[i].password # Trim(areqs[i].password)

\* C6 (as claimed): analyzePassword invoked with the empty password leaves
\* analysis, history and sessionId unchanged, leaves loading false, sends
\* nothing and creates no record.
C6_EmptyLeavesLoadingFalse ==
    [][(AnalyzeInvoked /\ password = <<>>) =>
         /\ UNCHANGED <<analysis, history, sessionId>>
         /\ loading' = FALSE
         /\ UNCHANGED <<areqs, hreqs, historyStore, auditStore>>]_vars

\* C6 (amended): analyzePassword invoked with the empty password leaves
\* analysis, history, sessionId and loading unchanged, sends nothing and
\* creates no record.
C6_EmptyChangesNothing ==
    [][(AnalyzeInvoked /\ password = <<>>) =>
         /\ UNCHANGED <<analysis, history, sessionId, loading>>
         /\ UNCHANGED <<areqs, hreqs, historyStore, auditStore>>]_vars

\* the empty password has been turned away while an analysis was shown
C6_Witness ==
    /\ guardAlert
    /\ password = <<>>
    /\ analysis # Null
    /\ history # <<>>

\* C7 (as claimed), its finite half: no analyze request, once sent, ends in
\* the client's error path.
C7_NeverErrorPath ==
    \A i \in DOMAIN areqs : areqs[i].st # "doneErr"

\* C7 (amended): a request ends in the error path only when fetch rejects or
\* the service answers non-OK, which it does only when the dual write fails
\* (or on an empty password); a 200 response sets analysis to the result of
\* that request and never takes the error path.
C7_ErrorOnlyOnTransportOrStore ==
    /\ [](\A i \in DOMAIN areqs :
            /\ areqs[i].st = "ok" <=> areqs[i].http = 200
            /\ areqs[i].st = "err" <=> areqs[i].http \in {400, 500}
            /\ areqs[i].http = 400 <=> (areqs[i].st = "err" /\ areqs[i].password = <<>>)
            /\ areqs[i].http = 200 =>
                  areqs[i].record_id \in SessionIdsOf(historyStore, areqs[i].session_id)
            /\ areqs[i].http = 500 => areqs[i].record_id = 0)
    /\ [][\A i \in DOMAIN areqs :
            /\ (areqs[i].st # "doneErr" /\ areqs'[i].st = "doneErr")
                 => (AnalyzeNetworkError(i) \/ areqs[i].http # 200)
            /\ (areqs[i].http = 200 /\ AnalyzeResponse(i))
                 => /\ areqs'[i].st = "doneOK"
                    /\ analysis' = AnalysisResult(areqs[i])
                    /\ analysis'.record_id = areqs[i].record_id]_vars

\* the result of one request is shown while another request has ended in the
\* error path
C7_Witness ==
    \E i, k \in DOMAIN areqs :
        /\ areqs[i].st = "doneOK"
        /\ analysis = AnalysisResult(areqs[i])
        /\ areqs[k].st = "doneErr"

\* C8: sessionId is set once, by the mount effect, to a non-empty value, no
\* operation changes it afterwards, and every analyze and history request
\* carries it.
C8_SessionIdFixed ==
    /\ [](\A r \in AllRequests : r.session_id = sessionId /\ r.session_id # "")
    /\ [][sessionId' # sessionId => (Mount /\ sessionId = "" /\ sessionId' # "")]_vars

\* a clearHistory has acted and requests of both kinds carry the session id
C8_Witness ==
    /\ sessionId \in SessionIds
    /\ lastClear # {}
    /\ \E i \in DOMAIN areqs : areqs[i].session_id = sessionId /\ areqs[i].st = "doneOK"
    /\ \E j \in DOMAIN hreqs : hreqs[j].session_id = sessionId /\ hreqs[j].trigger > 0

\* C9: every entry of the client's history is a HistoryRecord of the store
\* for this session, as a history response delivered it; it has no raw
\* password field, and the row shown for it is the masked form of the
\* password of its AuditRecord.
C9_HistoryShowsMaskedOnly ==
    \A k \in DOMAIN history :
        /\ history[k] \in Range(historyStore)
        /\ history[k].session_id = sessionId
        /\ "password_raw" \notin DOMAIN history[k]
        /\ \E a \in Range(auditStore) :
              /\ a.record_id = history[k].record_id
              /\ HistoryView[k] = mask(a.password_raw)

\* the history shows an entry while the input still holds the raw password
C9_Witness ==
    /\ history # <<>>
    /\ password = <<" ", "b", "c">>
    /\ HistoryView[1] = <<" ", "*", "c">>

\* C10: the client sends requests to the analyze endpoint and to the session
\* history endpoint only, never to an admin endpoint and never with
\* credentials.
C10_NoAdminRequests ==
    \A r \in AllRequests :
        /\ r.endpoint \in {AnalyzeEndpoint, HistoryEndpoint}
        /\ r.endpoint \notin AdminEndpoints
        /\ r.auth = "none"

\* requests of both kinds have been sent, among them a refresh after an analysis
C10_Witness ==
    /\ \E i \in DOMAIN areqs : areqs[i].endpoint = AnalyzeEndpoint
    /\ \E j \in DOMAIN hreqs : hreqs[j].endpoint = HistoryEndpoint /\ hreqs[j].trigger > 0

\* C11: the client sends the history request of an analysis only on handling
\* the 200 response of that analysis, in the step that sets analysis to it,
\* when the record is already stored; so the list a history request is
\* answered with holds the record of the analysis that triggered it.
C11_RefreshAfterWrite ==
    /\ [](\A j \in DOMAIN hreqs :
            (hreqs[j].trigger > 0 /\ hreqs[j].st = "ok") =>
                /\ hreqs[j].trigger \in DOMAIN areqs
                /\ areqs[hreqs[j].trigger].st = "doneOK"
                /\ areqs[hreqs[j].trigger].record_id \in Ids(hreqs[j].body.analyses))
    /\ [][Len(hreqs') > Len(hreqs) /\ hreqs'[Len(hreqs')].trigger > 0 =>
            LET k == hreqs'[Len(hreqs')].trigger
            IN /\ k \in DOMAIN areqs
               /\ areqs[k].st = "ok"
               /\ areqs[k].http = 200
               /\ areqs[k].record_id \in SessionIdsOf(historyStore, areqs[k].session_id)
               /\ areqs'[k].st = "doneOK"
               /\ analysis' = AnalysisResult(areqs[k])]_vars

\* the refresh of the second analysis has been answered with a list that
\* holds the records of both analyses
C11_Witness ==
    \E j \in DOMAIN hreqs :
        /\ hreqs[j].trigger = 2
        /\ hreqs[j].st = "ok"
        /\ analysis = AnalysisResult(areqs[2])
        /\ {areqs[1].record_id, areqs[2].record_id} \subseteq Ids(hreqs[j].body.analyses)
        /\ areqs[1].record_id # 0

\* C12: in every reachable state, loading is true if and only if at least
\* one analyze request issued by this client has not yet settled.
C12_LoadingIffInFlight ==
    loading <=> (\E i \in DOMAIN areqs : AnalyzeInFlight(i))

\* C13: once all analyze requests have settled, the analysis shown is the
\* result of the most recently submitted successful request (no
\* clearHistory since the last successful response).
C13_ShowsLatestSuccessful ==
    LET ok == {i \in DOMAIN areqs : areqs[i].st = "doneOK"}
    IN (/\ \A i \in DOMAIN areqs : ~AnalyzeInFlight(i)
        /\ ok # {}
        /\ ~clearedSince) =>
           analysis = AnalysisResult(areqs[CHOOSE i \in ok : \A k \in ok : k <= i])

\* C14: a step in which an analyze request fails (network error or non-OK
\* response) leaves analysis and history as they were, issues no history
\* request, and sets loading to false.
C14_FailureOnlyResetsLoading ==
    [][\A i \in DOMAIN areqs :
          (AnalyzeInFlight(i) /\ areqs'[i].st = "doneErr") =>
              /\ analysis' = analysis
              /\ history' = history
              /\ hreqs' = hreqs
              /\ loading' = FALSE
              /\ UNCHANGED <<password, sessionId, showPassword, store>>]_vars

\* the second analysis failed after the first one succeeded and was loaded
\* into the history: the first result and the history are still shown
C14_Witness ==
    /\ Len(areqs) = 2
    /\ areqs[1].st = "doneOK"
    /\ areqs[2].st = "doneErr"
    /\ analysis = AnalysisResult(areqs[1])
    /\ areqs[1].record_id \in Ids(history)
    /\ ~loading
    /\ \A j \in DOMAIN hreqs : hreqs[j].trigger # 2

\* C15: a step in which a history request fails (network error, or a non-OK
\* response whose JSON body has no analyses field) leaves the history list
\* as it was before.
C15_FailedLoadKeepsHistory ==
    [][\A j \in DOMAIN hreqs :
          (HistoryInFlight(j) /\ hreqs'[j].st \in {"doneEmpty", "doneErr"}) =>
              history' = history]_vars
====
